---- MODULE Spec2Model ----
(***************************************************************************)
(* Model of the block document model of the email template builder:       *)
(* EmailModel (src/js/model.js) with its subscribers, the typing-session  *)
(* protocol and the debounce timer of the properties panel                *)
(* (src/unnamed/part_000, PropertiesManager), and template loading and    *)
(* thumbnail generation of StorageManager (src/js/storage.js).            *)
(*                                                                         *)
(* The model keeps the two representations the code keeps:                *)
(*   blocks        this.blocks, the top-level list of block OBJECTS       *)
(*   allBlocksMap  this.allBlocksMap, id -> block OBJECT                  *)
(* A top-level entry is either the very object the map holds for its id   *)
(* (shared = TRUE: a write through the map is seen in the list) or a      *)
(* private copy produced by JSON.parse in undo()/redo() (shared = FALSE). *)
(***************************************************************************)
EXTENDS Integers, Sequences, FiniteSets, TLC

\* ------------------------------------------------------------------ bounds
MaxBlocks == 3      \* ids block-1 .. block-MaxBlocks can be generated
MaxSteps == 5       \* the number of calls a run of the full model makes
MaxStepsCore == 6   \* the number of calls a run of a narrower specification makes
MaxStepsEdit == 4   \* the number of calls a run of the edit-only specification makes
MaxStepsHist == 3   \* the number of calls a run of the history specification makes
MaxStepsLimit == 4  \* the number of calls a run of the capacity specification makes
MaxRoom == 2        \* a capacity run starts with at most this many free undo entries
MaxVal == 1         \* the data field (e.g. fontSize) ranges over 0..MaxVal
MaxStepsNotify == 3 \* the number of calls a run of the subscriber specification makes
MaxCallbacks == 2   \* the callback functions cb-1 .. cb-MaxCallbacks can subscribe
MaxStepsImport == 3 \* the number of calls a run of the import specification makes
MaxStepsPanel == 6  \* the number of steps a run of the properties panel specification makes
MaxStepsThumb == 4  \* the number of steps a run of the thumbnail specification makes

\* ------------------------------------------------------- program constants
UndoLimit == 50     \* saveState keeps the last 50 states
DefaultVal == 0     \* the field value of component.defaultData

NoId == 0           \* null / undefined id
Ids == 1..MaxBlocks
Types == {"text", "row"}
EventNames == {"blocksChanged", "selectionChanged", "undoStateChanged"}

\* this.listeners of a new model
NoListeners == [event \in EventNames |-> <<>>]
Values == 0..MaxVal
IndexInputs == -1..MaxBlocks

\* a block object: { id, type, data: { <field>, children? }, parentId }
NullBlock ==
    [id |-> NoId, type |-> "null", val |-> 0, hasKids |-> FALSE, kids |-> <<>>,
     parentId |-> NoId]

VARIABLES
    blocks,          \* this.blocks: Seq of [b: block, shared: BOOLEAN]
    allBlocksMap,    \* this.allBlocksMap: function id -> block
    undoStack,       \* this.undoStack: Seq of snapshots (JSON strings)
    redoStack,       \* this.redoStack
    selectedBlockId, \* this.selectedBlockId (NoId = null)
    isTyping,        \* this.isTyping
    nextId,          \* the next id addBlock/insertBlock/duplicateBlock generates
    events,          \* the notifications fired by the last call, in order
    fuel,            \* the number of calls the run may still make
    rt,              \* round trip bookkeeping: mutation, then undo, then redo
    run,             \* N mutations then N undos, counted from the initial state
    sess,            \* the typing session in progress or just closed
    rm,              \* what the last removeBlock call was asked to remove
    op,              \* the last call: its name and the stack lengths it found
    dup,             \* duplicateBlock(id), then removeBlock(id)
    listeners,       \* this.listeners: event -> Seq of [cb, throws]
    invoked,         \* the callbacks the last call invoked, in order
    raised,          \* the last call ended with an error thrown to its caller
    panel,           \* PropertiesManager: currentBlockId and inputTimeout
    thumb            \* generateThumbnail: its stage and its currentState

vars == <<blocks, allBlocksMap, undoStack, redoStack, selectedBlockId, isTyping,
          nextId, events, fuel, rt, run, sess, rm, op, dup, listeners, invoked, raised,
          panel, thumb>>

\* ---------------------------------------------------------------- helpers

\* the model as one value, threaded through the method bodies
Cur ==
    [blocks |-> blocks, map |-> allBlocksMap, undo |-> undoStack,
     redo |-> redoStack, sel |-> selectedBlockId, typing |-> isTyping,
     next |-> nextId, ev |-> <<>>, subs |-> listeners, calls |-> <<>>, err |-> FALSE]

SeqToSet(s) == {s[i] : i \in DOMAIN s}

\* Array.prototype.filter(x => x !== v)
FilterOut(s, v) == SelectSeq(s, LAMBDA x : x # v)

\* Array.prototype.indexOf, 1-based; 0 when absent
IndexOf(s, v) ==
    IF \E i \in DOMAIN s : s[i] = v
    THEN CHOOSE i \in DOMAIN s : s[i] = v /\ \A j \in 1..(i - 1) : s[j] # v
    ELSE 0

\* this.blocks.findIndex(b => b.id === id), 1-based; 0 when absent
FindIndex(bs, id) ==
    IF \E i \in DOMAIN bs : bs[i].b.id = id
    THEN CHOOSE i \in DOMAIN bs : bs[i].b.id = id /\ \A j \in 1..(i - 1) : bs[j].b.id # id
    ELSE 0

\* the start position Array.prototype.splice computes from its (0-based) index
SpliceStart(len, index) ==
    IF index < 0 THEN (IF len + index < 0 THEN 0 ELSE len + index)
    ELSE IF index > len THEN len ELSE index

\* s.splice(index, 0, x)
SpliceIn(s, index, x) ==
    LET k == SpliceStart(Len(s), index)
    IN SubSeq(s, 1, k) \o <<x>> \o SubSeq(s, k + 1, Len(s))

\* s.splice(i - 1, 1) for a 1-based position i of s
RemoveAt(s, i) == SubSeq(s, 1, i - 1) \o SubSeq(s, i + 1, Len(s))

\* JSON.stringify(this.blocks): the contents of the top-level objects
Stringify(bs) == [i \in DOMAIN bs |-> bs[i].b]

\* JSON.parse(state): fresh objects, none of them the object the map holds
Parse(s) == [i \in DOMAIN s |-> [b |-> s[i], shared |-> FALSE]]

\* a write to a map object is seen through every list entry that is that object
Sync(bs, m) ==
    [i \in DOMAIN bs |->
        IF bs[i].shared /\ bs[i].b.id \in DOMAIN m
        THEN [b |-> m[bs[i].b.id], shared |-> TRUE]
        ELSE bs[i]]

\* this.allBlocksMap[id] = rec, or a field write on the object stored there
PutMap(M, id, rec) ==
    LET m2 == [x \in (DOMAIN M.map) \cup {id} |-> IF x = id THEN rec ELSE M.map[x]]
    IN [M EXCEPT !.map = m2, !.blocks = Sync(M.blocks, m2)]

\* what a callback that runs now reads through getAllBlocks, getBlock,
\* getSelectedBlock, canUndo and canRedo
View(M) ==
    [top |-> Stringify(M.blocks), map |-> M.map, sel |-> M.sel,
     canUndo |-> Len(M.undo) > 0, canRedo |-> Len(M.redo) > 0]

\* callback() of one subscriber, at the state M of the model
Invoke(M, event, sub) ==
    [event |-> event, cb |-> sub.cb, threw |-> sub.throws, view |-> View(M)]

\* notifyListeners without the try/catch: the first error ends the forEach and
\* leaves the method
notifyListenersNoCatch(M, event) ==
    LET subs == M.subs[event]
        bad == {i \in DOMAIN subs : subs[i].throws}
        last == IF bad = {} THEN Len(subs)
                ELSE CHOOSE i \in bad : \A j \in bad : i <= j
    IN [M EXCEPT !.ev = Append(@, event),
                 !.calls = @ \o [i \in 1..last |-> Invoke(M, event, subs[i])],
                 !.err = @ \/ bad # {}]

\* notifyListeners(event): every callback of the event runs, in registration
\* order; an error of a callback is caught and logged
notifyListeners(M, event) ==
    LET subs == M.subs[event]
    IN [M EXCEPT !.ev = Append(@, event),
                 !.calls = @ \o [i \in DOMAIN subs |-> Invoke(M, event, subs[i])]]

\* getBlockById(id) !== null: the map first, then the top-level list
Exists(M, id) ==
    \/ id \in DOMAIN M.map
    \/ \E i \in DOMAIN M.blocks : M.blocks[i].b.id = id

\* getBlockById: the map entry, else the top-level entry, else null.  (The third
\* search of the code, through the children of the top-level rows, only finds
\* blocks that getAllBlocksFlat takes from the map, so it finds nothing the
\* first search has missed.)
getBlockById(M, id) ==
    IF id \in DOMAIN M.map THEN M.map[id]
    ELSE IF FindIndex(M.blocks, id) # 0 THEN M.blocks[FindIndex(M.blocks, id)].b
    ELSE NullBlock

\* getBlock: the same lookup (map first, then getBlockById)
getBlock(M, id) == getBlockById(M, id)

\* getAllBlocks: a copy of the top-level list
getAllBlocks(M) == Stringify(M.blocks)

RECURSIVE CollectNested(_, _, _)
RECURSIVE CollectAll(_, _, _)
\* collectNested of getAllBlocksFlat; st = [out: the array, seen: blockIds]
CollectNested(M, st, blockId) ==
    IF blockId \in st.seen THEN st
    ELSE IF blockId \notin DOMAIN M.map THEN st
    ELSE LET block == M.map[blockId]
             st1 == [out |-> Append(st.out, block), seen |-> st.seen \cup {blockId}]
         IN IF block.type = "row" /\ block.hasKids
            THEN CollectAll(M, st1, block.kids)
            ELSE st1

CollectAll(M, st, kids) ==
    IF kids = <<>> THEN st
    ELSE CollectAll(M, CollectNested(M, st, Head(kids)), Tail(kids))

RECURSIVE CollectTop(_, _, _)
\* this.blocks.forEach(block => row ? block.data.children.forEach(collectNested))
CollectTop(M, st, i) ==
    IF i > Len(M.blocks) THEN st
    ELSE LET block == M.blocks[i].b
             st1 == IF block.type = "row" /\ block.hasKids
                    THEN CollectAll(M, st, block.kids)
                    ELSE st
         IN CollectTop(M, st1, i + 1)

\* getAllBlocksFlat.  With an empty map the fallback branch resolves children
\* through getBlockById, which then finds top-level blocks only, and those are
\* in the array already: the result is the top-level list.
getAllBlocksFlat(M) ==
    LET top == Stringify(M.blocks)
    IN IF DOMAIN M.map # {}
       THEN CollectTop(M, [out |-> top, seen |-> {top[i].id : i \in DOMAIN top}], 1).out
       ELSE top

FlatIds(M) ==
    LET flat == getAllBlocksFlat(M)
    IN {flat[i].id : i \in DOMAIN flat}

\* getChildBlocks(rowId), as the ids of the blocks it returns
getChildBlocks(M, rowId) ==
    IF ~Exists(M, rowId) THEN <<>>
    ELSE LET rowBlock == getBlockById(M, rowId)
         IN IF rowBlock.type # "row" \/ ~rowBlock.hasKids THEN <<>>
            ELSE SelectSeq(rowBlock.kids, LAMBDA c : Exists(M, c))

\* getSelectedBlock
getSelectedBlock(M) ==
    IF M.sel = NoId THEN NullBlock ELSE getBlock(M, M.sel)

canUndo(M) == Len(M.undo) > 0
canRedo(M) == Len(M.redo) > 0

\* ------------------------------------------------------- EmailModel methods

\* saveState without line 472: the redo stack is kept
saveStateKeepRedo(M) ==
    LET pushed == Append(M.undo, Stringify(M.blocks))
        kept == IF Len(pushed) > UndoLimit THEN Tail(pushed) ELSE pushed
    IN notifyListeners([M EXCEPT !.undo = kept], "undoStateChanged")

\* saveState without lines 467-469: nothing is evicted
saveStateNoLimit(M) ==
    notifyListeners([M EXCEPT !.undo = Append(@, Stringify(M.blocks)), !.redo = <<>>],
                    "undoStateChanged")

\* saveState
saveState(M) ==
    LET pushed == Append(M.undo, Stringify(M.blocks))
        kept == IF Len(pushed) > UndoLimit THEN Tail(pushed) ELSE pushed
    IN notifyListeners([M EXCEPT !.undo = kept, !.redo = <<>>], "undoStateChanged")

\* addBlock without the check of the parent at line 71: a block whose parent is
\* missing or is no row falls back to the top level, keeping its parentId
LinkNewBlockLoose(M, newBlock, parentId) ==
    IF parentId # NoId /\ Exists(M, parentId) /\ getBlockById(M, parentId).type = "row"
    THEN LET parentBlock == getBlockById(M, parentId)
         IN PutMap(M, parentId,
                   [parentBlock EXCEPT !.hasKids = TRUE,
                                       !.kids = Append(parentBlock.kids, newBlock.id)])
    ELSE [M EXCEPT !.blocks = Append(@, [b |-> newBlock, shared |-> TRUE])]

\* addBlock, lines 68-80: link the new block under its parent or at top level
LinkNewBlock(M, newBlock, parentId) ==
    IF parentId # NoId
    THEN IF Exists(M, parentId) /\ getBlockById(M, parentId).type = "row"
         THEN LET parentBlock == getBlockById(M, parentId)
              IN PutMap(M, parentId,
                        [parentBlock EXCEPT !.hasKids = TRUE,
                                            !.kids = Append(parentBlock.kids, newBlock.id)])
         ELSE M
    ELSE [M EXCEPT !.blocks = Append(@, [b |-> newBlock, shared |-> TRUE])]

\* addBlock(block, parentId)
addBlock(M, type, val, parentId) ==
    LET id == M.next
        newBlock == [id |-> id, type |-> type, val |-> val, hasKids |-> FALSE,
                     kids |-> <<>>, parentId |-> parentId]
        M1 == PutMap([M EXCEPT !.next = id + 1], id, newBlock)
        M2 == saveState(M1)
        M3 == LinkNewBlock(M2, newBlock, parentId)
    IN notifyListeners(M3, "blocksChanged")

\* insertBlock(block, index)
insertBlock(M, type, val, index) ==
    LET id == M.next
        newBlock == [id |-> id, type |-> type, val |-> val, hasKids |-> FALSE,
                     kids |-> <<>>, parentId |-> NoId]
        M1 == PutMap([M EXCEPT !.next = id + 1], id, newBlock)
        M2 == saveState(M1)
        M3 == [M2 EXCEPT !.blocks = SpliceIn(@, index, [b |-> newBlock, shared |-> TRUE])]
    IN notifyListeners(M3, "blocksChanged")

\* removeBlock, lines 126-135: detach the block from its parent or the top level
Detach(M, block) ==
    IF block.parentId # NoId
    THEN IF Exists(M, block.parentId) /\ getBlockById(M, block.parentId).hasKids
         THEN LET parentBlock == getBlockById(M, block.parentId)
              IN PutMap(M, block.parentId,
                        [parentBlock EXCEPT !.kids = FilterOut(parentBlock.kids, block.id)])
         ELSE M
    ELSE [M EXCEPT !.blocks = SelectSeq(@, LAMBDA e : e.b.id # block.id)]

\* removeBlock, lines 144-148: clear the selection if it is the removed block
ClearSelectionOf(M, blockId) ==
    IF M.sel = blockId
    THEN notifyListeners([M EXCEPT !.sel = NoId], "selectionChanged")
    ELSE M

RECURSIVE removeBlock(_, _)
RECURSIVE RemoveChildren(_, _)
\* removeBlock(blockId); the forEach runs over the child array as it was when
\* the loop began (the recursive calls replace the array, they do not edit it)
removeBlock(M, blockId) ==
    LET M1 == saveState(M)
    IN IF ~Exists(M1, blockId) THEN M1
       ELSE LET block == getBlockById(M1, blockId)
                M2 == Detach(M1, block)
                M3 == IF block.type = "row" /\ block.hasKids
                      THEN RemoveChildren(M2, getBlockById(M2, blockId).kids)
                      ELSE M2
                M4 == ClearSelectionOf(M3, blockId)
            IN notifyListeners(M4, "blocksChanged")

RemoveChildren(M, kids) ==
    IF kids = <<>> THEN M
    ELSE RemoveChildren(removeBlock(M, Head(kids)), Tail(kids))

\* updateBlock(blockId, updates)
updateBlock(M, blockId, val) ==
    IF ~Exists(M, blockId) THEN M
    ELSE LET M1 == IF ~M.typing THEN saveState(M) ELSE M
             block == getBlockById(M1, blockId)
             M2 == PutMap(M1, blockId, [block EXCEPT !.val = val])
         IN notifyListeners(M2, "blocksChanged")

\* selectBlock(blockId)
selectBlock(M, blockId) ==
    IF M.sel = blockId THEN M
    ELSE notifyListeners([M EXCEPT !.sel = blockId], "selectionChanged")

\* moveBlock(blockId, newIndex, parentId)
moveBlock(M, blockId, newIndex, parentId) ==
    LET M1 == saveState(M)
        inParent == /\ parentId # NoId
                    /\ Exists(M1, parentId)
                    /\ getBlockById(M1, parentId).type = "row"
                    /\ getBlockById(M1, parentId).hasKids
    IN IF ~Exists(M1, blockId) THEN M1
       ELSE IF inParent
       THEN LET parentBlock == getBlockById(M1, parentId)
                currentIndex == IndexOf(parentBlock.kids, blockId)
            IN IF currentIndex = 0 THEN M1
               ELSE notifyListeners(
                        PutMap(M1, parentId,
                               [parentBlock EXCEPT !.kids =
                                   SpliceIn(RemoveAt(parentBlock.kids, currentIndex),
                                            newIndex, blockId)]),
                        "blocksChanged")
       ELSE LET currentIndex == FindIndex(M1.blocks, blockId)
            IN IF currentIndex = 0 THEN M1
               ELSE notifyListeners(
                        [M1 EXCEPT !.blocks =
                            SpliceIn(RemoveAt(M1.blocks, currentIndex), newIndex,
                                     M1.blocks[currentIndex])],
                        "blocksChanged")

\* duplicateBlock, lines 431-437: insert the copy after a top-level original
PlaceDuplicate(M, block, currentIndex, duplicatedBlock) ==
    IF block.parentId = NoId /\ currentIndex # 0
    THEN [M EXCEPT !.blocks = SpliceIn(@, currentIndex, [b |-> duplicatedBlock, shared |-> TRUE])]
    ELSE IF block.parentId = NoId
    THEN [M EXCEPT !.blocks = Append(@, [b |-> duplicatedBlock, shared |-> TRUE])]
    ELSE M

RECURSIVE duplicateBlock(_, _)
RECURSIVE DuplicateChildren(_, _, _, _)
\* duplicateBlock(blockId): [m |-> the model after the call, id |-> its result]
duplicateBlock(M, blockId) ==
    IF ~Exists(M, blockId) THEN [m |-> M, id |-> NoId]
    ELSE LET block == getBlockById(M, blockId)
             M1 == saveState(M)
             currentIndex == FindIndex(M1.blocks, blockId)
             newId == M1.next
             M2 == [M1 EXCEPT !.next = newId + 1]
             withKids == block.type = "row" /\ block.hasKids /\ Len(block.kids) > 0
             r == IF withKids
                  THEN DuplicateChildren(M2, block.kids, newId, <<>>)
                  ELSE [m |-> M2, kids |-> block.kids]
             duplicatedBlock == [id |-> newId, type |-> block.type, val |-> block.val,
                                 hasKids |-> block.hasKids, kids |-> r.kids,
                                 parentId |-> block.parentId]
             M3 == PutMap(r.m, newId, duplicatedBlock)
             M4 == PlaceDuplicate(M3, block, currentIndex, duplicatedBlock)
         IN [m |-> notifyListeners(M4, "blocksChanged"), id |-> newId]

\* the forEach of lines 411-424; acc is duplicatedBlock.data.children so far
DuplicateChildren(M, kids, newParentId, acc) ==
    IF kids = <<>> THEN [m |-> M, kids |-> acc]
    ELSE IF ~Exists(M, Head(kids))
    THEN DuplicateChildren(M, Tail(kids), newParentId, acc)
    ELSE LET d == duplicateBlock(M, Head(kids))
         IN IF d.id = NoId
            THEN DuplicateChildren(d.m, Tail(kids), newParentId, acc)
            ELSE DuplicateChildren(
                     PutMap(d.m, d.id, [getBlockById(d.m, d.id) EXCEPT !.parentId = newParentId]),
                     Tail(kids), newParentId, Append(acc, d.id))

\* clearAll
clearAll(M) ==
    IF Len(M.blocks) = 0 THEN M
    ELSE LET M1 == saveState(M)
             M2 == [M1 EXCEPT !.blocks = <<>>, !.sel = NoId]
         IN notifyListeners(notifyListeners(M2, "blocksChanged"), "selectionChanged")

\* undo that reads the newest undo entry without popping it
RestorePreviousNoPop(M) ==
    [M EXCEPT !.redo = Append(@, Stringify(M.blocks)),
              !.blocks = Parse(M.undo[Len(M.undo)]),
              !.sel = NoId]

\* undo, lines 484-492: swap the current list for the newest undo entry
RestorePrevious(M) ==
    [M EXCEPT !.redo = Append(@, Stringify(M.blocks)),
              !.undo = SubSeq(@, 1, Len(@) - 1),
              !.blocks = Parse(M.undo[Len(M.undo)]),
              !.sel = NoId]

\* undo
undo(M) ==
    IF Len(M.undo) = 0 THEN M
    ELSE notifyListeners(notifyListeners(notifyListeners(RestorePrevious(M),
             "blocksChanged"), "selectionChanged"), "undoStateChanged")

\* redo
redo(M) ==
    IF Len(M.redo) = 0 THEN M
    ELSE LET M1 == [M EXCEPT !.undo = Append(@, Stringify(M.blocks)),
                             !.redo = SubSeq(@, 1, Len(@) - 1),
                             !.blocks = Parse(M.redo[Len(M.redo)])]
         IN notifyListeners(notifyListeners(M1, "blocksChanged"), "undoStateChanged")

\* toJSON().blocks
toJSON(M) == getAllBlocksFlat(M)

\* fromJSON(json): the list and the map hold the objects of json.blocks; a
\* top-level entry is the object of the map unless a later entry has its id
fromJSON(M, json) ==
    LET M1 == saveState(M)
        top == SelectSeq([i \in DOMAIN json |->
                             [b |-> json[i],
                              shared |-> \A j \in DOMAIN json : j > i => json[j].id # json[i].id]],
                         LAMBDA e : e.b.parentId = NoId)
        ids == {json[i].id : i \in DOMAIN json}
        map == [id \in ids |->
                   json[CHOOSE i \in DOMAIN json :
                            json[i].id = id /\ \A j \in DOMAIN json : j > i => json[j].id # id]]
        M2 == [M1 EXCEPT !.blocks = top, !.map = map, !.sel = NoId]
    IN notifyListeners(notifyListeners(M2, "blocksChanged"), "selectionChanged")

\* an exception leaves the method: the caller gets an error, the fields keep
\* what the method has written so far
Throw(M) == [M EXCEPT !.err = TRUE]

\* fromJSON(json) for any argument. payload.shape tells what json is:
\*   "null"             null or undefined: json.blocks throws (line 554)
\*   "non-object"       a number, a string, a boolean: json.blocks is undefined
\*   "blocks-not-array" an object whose blocks is a non-empty string or an
\*                      object: allBlocks.filter is not a function (line 557)
\*   "blocks-array"     an object whose blocks is the array payload.blocks
fromJSONAny(M, payload) ==
    CASE payload.shape = "null" -> Throw(saveState(M))
      [] payload.shape = "non-object" -> fromJSON(M, <<>>)
      [] payload.shape = "blocks-not-array" -> Throw(saveState(M))
      [] payload.shape = "blocks-array" -> fromJSON(M, payload.blocks)

\* on(event, callback)
on(M, event, sub) ==
    IF event \in DOMAIN M.subs
    THEN [M EXCEPT !.subs = [@ EXCEPT ![event] = Append(@, sub)]]
    ELSE M

\* off(event, callback)
off(M, event, cb) ==
    IF event \in DOMAIN M.subs
    THEN [M EXCEPT !.subs = [@ EXCEPT ![event] = SelectSeq(@, LAMBDA x : x.cb # cb)]]
    ELSE M

\* startTyping / stopTyping
startTyping(M) == [M EXCEPT !.typing = TRUE]
stopTyping(M) == [M EXCEPT !.typing = FALSE]

\* the debounce timer callback of PropertiesManager.handleFieldChange
inputTimeout(M, currentBlockId, value) ==
    saveState(stopTyping(updateBlock(M, currentBlockId, value)))

\* ------------------------------------------------- what a caller observes

\* the document as the read accessors show it: getAllBlocks (top-level order and
\* records), and getBlock and getChildBlocks of every block of getAllBlocksFlat
DocTree(M) ==
    LET ids == FlatIds(M)
    IN [top |-> getAllBlocks(M),
        get |-> [id \in ids |-> getBlock(M, id)],
        children |-> [id \in ids |-> getChildBlocks(M, id)]]

\* the record getAllBlocksFlat returns for id
FlatRec(M, id) ==
    LET flat == getAllBlocksFlat(M)
    IN flat[CHOOSE i \in DOMAIN flat : flat[i].id = id]

RECURSIVE IsUnder(_, _, _, _)
\* following parentId from block x of the flat list (given as the function
\* parentOf on its ids) reaches block id
IsUnder(parentOf, x, id, depth) ==
    LET p == parentOf[x]
    IN IF p = id THEN TRUE
       ELSE IF p \notin DOMAIN parentOf \/ depth = 0 THEN FALSE
       ELSE IsUnder(parentOf, p, id, depth - 1)

\* the blocks of the flat list nested, at any depth, under block id
Descendants(M, id) ==
    LET flat == getAllBlocksFlat(M)
        ids == {flat[i].id : i \in DOMAIN flat}
        parentOf == [x \in ids |-> flat[CHOOSE i \in DOMAIN flat : flat[i].id = x].parentId]
    IN {x \in ids \ {id} : IsUnder(parentOf, x, id, Cardinality(ids))}

RECURSIVE ShapeOf(_, _, _)
\* the subtree of block id without its ids: type, data and the subtrees of
\* getChildBlocks(id), in order
ShapeOf(M, id, depth) ==
    LET kids == getChildBlocks(M, id)
    IN [type |-> getBlock(M, id).type, val |-> getBlock(M, id).val,
        kids |-> IF depth = 0 THEN <<>>
                 ELSE [i \in DOMAIN kids |-> ShapeOf(M, kids[i], depth - 1)]]

\* the document without its ids: getAllBlocks, and under each block its subtree
Shape(M) ==
    LET top == getAllBlocks(M)
    IN [i \in DOMAIN top |->
           [type |-> top[i].type, val |-> top[i].val,
            kids |-> ShapeOf(M, top[i].id, MaxBlocks + 1).kids]]

\* the model without the notification log of the call in progress
Quiet(M) == [M EXCEPT !.ev = <<>>, !.calls = <<>>]

\* ------------------------------------------------------------ bookkeeping

EmptyTree == [top |-> <<>>, get |-> <<>>, children |-> <<>>]
Rt0 == [stage |-> "none", pre |-> EmptyTree, post |-> EmptyTree]
RunOff == [phase |-> "off", n |-> 0, u |-> 0, noop |-> FALSE]
Sess0 == [stage |-> "none", pure |-> FALSE, len0 |-> 0, k |-> 0, pre |-> <<>>, upd |-> {}]
SessDirty == IF sess.stage = "open" THEN [Sess0 EXCEPT !.stage = "open"] ELSE Sess0
Rm0 == [valid |-> FALSE, id |-> NoId, ids |-> {}, container |-> FALSE, selHit |-> FALSE]
Dup0 == [stage |-> "none", id |-> NoId, shape |-> <<>>, ids |-> {}, sub |-> {}]
Op0 == [name |-> "none", undo |-> 0, redo |-> 0]
\* PropertiesManager after its constructor; value and origin describe the
\* pending timer: the value it will write, the block edited at the keystroke
Panel0 == [currentBlockId |-> NoId, inputTimeout |-> FALSE, value |-> 0, origin |-> NoId]
\* the callbacks PropertiesManager.init registers
PanelCb == 0
PanelListeners ==
    [event \in EventNames |->
        IF event \in {"selectionChanged", "blocksChanged"}
        THEN <<[cb |-> PanelCb, throws |-> FALSE]>> ELSE <<>>]
Thumb0 == [stage |-> "idle", currentState |-> <<>>]

\* the call being made finds the stacks at these lengths
Called(name) == op' = [name |-> name, undo |-> Len(undoStack), redo |-> Len(redoStack)]

\* getSelectedBlock() as a callback reads it: the id of the selected block, or
\* null when nothing is selected or the selected id has no block
ViewSelected(view) ==
    IF view.sel = NoId THEN NoId
    ELSE IF view.sel \in DOMAIN view.map
            \/ \E i \in DOMAIN view.top : view.top[i].id = view.sel
    THEN view.sel
    ELSE NoId

\* PropertiesManager.updatePanel, and the blocksChanged callback of init():
\* currentBlockId follows the selected block
updatePanel(p, view) == [p EXCEPT !.currentBlockId = ViewSelected(view)]

RECURSIVE PanelReacts(_, _)
\* the callbacks of the panel among the callbacks a call invoked, in order
PanelReacts(p, cs) ==
    IF cs = <<>> THEN p
    ELSE PanelReacts(IF Head(cs).cb = PanelCb THEN updatePanel(p, Head(cs).view) ELSE p,
                     Tail(cs))

SetFields(M) ==
    /\ blocks' = M.blocks
    /\ allBlocksMap' = M.map
    /\ undoStack' = M.undo
    /\ redoStack' = M.redo
    /\ selectedBlockId' = M.sel
    /\ isTyping' = M.typing
    /\ nextId' = M.next
    /\ events' = M.ev
    /\ listeners' = M.subs
    /\ invoked' = [i \in DOMAIN M.calls |->
                      [event |-> M.calls[i].event, cb |-> M.calls[i].cb,
                       threw |-> M.calls[i].threw,
                       final |-> M.calls[i].view = View(M)]]
    /\ raised' = M.err

\* the fields of the model after a call, and the panel after its callbacks
SetModel(M) ==
    /\ SetFields(M)
    /\ panel' = PanelReacts(panel, M.calls)

\* a single mutation took the document from Cur to M
AfterMutation(M) ==
    /\ rt' = [stage |-> "mut", pre |-> DocTree(Cur), post |-> DocTree(M)]
    /\ run' = IF run.phase = "mutating" THEN [run EXCEPT !.n = @ + 1] ELSE RunOff
    /\ sess' = SessDirty

\* a call that is neither a mutation of the document nor undo or redo
AfterOther ==
    /\ rt' = Rt0
    /\ run' = RunOff
    /\ sess' = SessDirty

\* one more call is made
Step == fuel > 0 /\ fuel' = fuel - 1

\* ---------------------------------------------------------------- actions

\* the caller cannot name the id the call is about to generate
AddCall(type, parentId) ==
    /\ nextId <= MaxBlocks
    /\ Step
    /\ LET M == addBlock(Cur, type, DefaultVal, parentId)
       IN /\ SetModel(M)
          /\ IF nextId \in FlatIds(M) THEN AfterMutation(M) ELSE AfterOther
    /\ rm' = Rm0
    /\ Called("addBlock")
    /\ UNCHANGED thumb
    /\ dup' = Dup0

AddBlock ==
    \E type \in Types, parentId \in (Ids \ {nextId}) \cup {NoId} : AddCall(type, parentId)

InsertCall(type, index) ==
    /\ nextId <= MaxBlocks
    /\ Step
    /\ LET M == insertBlock(Cur, type, DefaultVal, index)
       IN SetModel(M) /\ AfterMutation(M)
    /\ rm' = Rm0
    /\ Called("insertBlock")
    /\ UNCHANGED thumb
    /\ dup' = Dup0

InsertBlock ==
    \E type \in Types, index \in IndexInputs : InsertCall(type, index)

RemoveCall(blockId) ==
    /\ Step
    /\ LET M == removeBlock(Cur, blockId)
           valid == blockId \in FlatIds(Cur)
           removed == {blockId} \cup Descendants(Cur, blockId)
       IN /\ SetModel(M)
          /\ IF valid
             THEN /\ AfterMutation(M)
                  /\ rm' = [valid |-> TRUE, id |-> blockId, ids |-> removed,
                            container |-> FlatRec(Cur, blockId).type = "row"
                                          /\ removed # {blockId},
                            selHit |-> selectedBlockId \in removed]
             ELSE AfterOther /\ rm' = Rm0
    /\ Called("removeBlock")
    /\ UNCHANGED thumb
    /\ dup' = IF dup.stage = "copied" /\ dup.id = blockId
               THEN [dup EXCEPT !.stage = "removed"]
               ELSE Dup0

RemoveBlock ==
    \E blockId \in Ids : RemoveCall(blockId)

UpdateCall(blockId, val) ==
    /\ Step
    /\ LET M == updateBlock(Cur, blockId, val)
       IN /\ SetModel(M)
          /\ IF isTyping
             THEN /\ rt' = Rt0
                  /\ run' = RunOff
                  /\ sess' = IF sess.stage = "open" /\ sess.pure /\ Exists(Cur, blockId)
                             THEN [sess EXCEPT !.k = @ + 1, !.upd = @ \cup {blockId}]
                             ELSE SessDirty
             ELSE IF blockId \in FlatIds(Cur) THEN AfterMutation(M) ELSE AfterOther
    /\ rm' = Rm0
    /\ Called("updateBlock")
    /\ UNCHANGED thumb
    /\ dup' = Dup0

UpdateBlock ==
    \E blockId \in Ids, val \in Values : UpdateCall(blockId, val)

MoveCall(blockId, newIndex, parentId) ==
    /\ Step
    /\ LET M == moveBlock(Cur, blockId, newIndex, parentId)
       IN /\ SetModel(M)
          /\ IF blockId \in FlatIds(Cur) /\ M.ev = <<"undoStateChanged", "blocksChanged">>
             THEN AfterMutation(M)
             ELSE AfterOther
    /\ rm' = Rm0
    /\ Called("moveBlock")
    /\ UNCHANGED thumb
    /\ dup' = Dup0

MoveBlock ==
    \E blockId \in Ids, newIndex \in IndexInputs, parentId \in Ids \cup {NoId} :
        MoveCall(blockId, newIndex, parentId)

DuplicateCall(blockId) ==
    /\ Step
    /\ Exists(Cur, blockId)
    /\ LET d == duplicateBlock(Cur, blockId)
       IN /\ d.m.next <= MaxBlocks + 1
          /\ SetModel(d.m)
          /\ IF blockId \in FlatIds(Cur) THEN AfterMutation(d.m) ELSE AfterOther
    /\ rm' = Rm0
    /\ Called("duplicateBlock")
    /\ UNCHANGED thumb
    /\ dup' = IF blockId \in FlatIds(Cur)
               THEN [stage |-> "copied", id |-> blockId, shape |-> Shape(Cur),
                     ids |-> FlatIds(Cur),
                     sub |-> {blockId} \cup Descendants(Cur, blockId)]
               ELSE Dup0

DuplicateBlock ==
    \E blockId \in Ids : DuplicateCall(blockId)

ClearAll ==
    /\ Step
    /\ LET M == clearAll(Cur)
       IN /\ SetModel(M)
          /\ IF Len(blocks) > 0 THEN AfterMutation(M) ELSE AfterOther
    /\ rm' = Rm0
    /\ Called("clearAll")
    /\ UNCHANGED thumb
    /\ dup' = Dup0

Undo ==
    LET ok == Len(undoStack) > 0
        M == undo(Cur)
    IN /\ Step
       /\ SetModel(M)
       /\ rt' = IF ok /\ rt.stage = "mut" THEN [rt EXCEPT !.stage = "undone"] ELSE Rt0
       /\ run' = IF run.phase \in {"mutating", "undoing"} /\ run.u < run.n
                 THEN [run EXCEPT !.phase = "undoing", !.u = @ + 1]
                 ELSE IF run.phase = "undoing"
                 THEN [run EXCEPT !.phase = "extra", !.noop = (~ok /\ Quiet(M) = Cur)]
                 ELSE RunOff
       /\ sess' = IF ok /\ sess.stage = "closed"
                  THEN [sess EXCEPT !.stage = "undone"]
                  ELSE SessDirty
       /\ rm' = Rm0
       /\ Called("undo")
       /\ UNCHANGED thumb
       /\ dup' = Dup0

Redo ==
    LET ok == Len(redoStack) > 0
        M == redo(Cur)
    IN /\ Step
       /\ SetModel(M)
       /\ rt' = IF ok /\ rt.stage = "undone" THEN [rt EXCEPT !.stage = "redone"] ELSE Rt0
       /\ run' = RunOff
       /\ sess' = SessDirty
       /\ rm' = Rm0
       /\ Called("redo")
       /\ UNCHANGED thumb
       /\ dup' = Dup0

\* callers select null or a block of the document
SelectBlock ==
    \E blockId \in FlatIds(Cur) \cup {NoId} :
        /\ Step
        /\ SetModel(selectBlock(Cur, blockId))
        /\ AfterOther
        /\ rm' = Rm0
        /\ Called("selectBlock")
        /\ UNCHANGED thumb
        /\ dup' = Dup0

StartTyping ==
    /\ Step
    /\ SetModel(startTyping(Cur))
    /\ rt' = Rt0
    /\ run' = RunOff
    /\ sess' = IF sess.stage = "open" THEN sess
               ELSE [stage |-> "open", pure |-> TRUE, len0 |-> Len(undoStack), k |-> 0,
                     pre |-> [id \in DOMAIN allBlocksMap |-> allBlocksMap[id].val],
                     upd |-> {}]
    /\ rm' = Rm0
    /\ Called("startTyping")
    /\ UNCHANGED thumb
    /\ dup' = Dup0

SessClosed(moreK, moreUpd) ==
    IF sess.stage = "open" /\ sess.pure
    THEN [sess EXCEPT !.stage = "closed", !.k = @ + moreK, !.upd = @ \cup moreUpd]
    ELSE Sess0

StopTyping ==
    /\ Step
    /\ SetModel(stopTyping(Cur))
    /\ rt' = Rt0
    /\ run' = RunOff
    /\ sess' = SessClosed(0, {})
    /\ rm' = Rm0
    /\ Called("stopTyping")
    /\ UNCHANGED thumb
    /\ dup' = Dup0

\* the debounce timer of a text field fires: update, stopTyping, saveState
InputTimeout ==
    \E currentBlockId \in Ids, value \in Values :
        /\ isTyping
        /\ Step
        /\ SetModel(inputTimeout(Cur, currentBlockId, value))
        /\ rt' = Rt0
        /\ run' = RunOff
        /\ sess' = IF Exists(Cur, currentBlockId)
                   THEN SessClosed(1, {currentBlockId})
                   ELSE SessClosed(0, {})
        /\ rm' = Rm0
        /\ Called("inputTimeout")
        /\ UNCHANGED thumb
        /\ dup' = Dup0

\* a template is loaded: the one toJSON gives now, or an empty one
FromJSON ==
    \E json \in {toJSON(Cur), <<>>} :
        /\ Step
        /\ SetModel(fromJSON(Cur, json))
        /\ AfterOther
        /\ rm' = Rm0
        /\ Called("fromJSON")
        /\ UNCHANGED thumb
        /\ dup' = Dup0

\* ids of blocks of a stored template, generated in another session
ForeignA == MaxBlocks + 1
ForeignB == MaxBlocks + 2

\* payloads that are not a template: no object, no array of blocks, or an
\* entry without type and data
InvalidPayloads ==
    {[shape |-> "null", blocks |-> <<>>],
     [shape |-> "non-object", blocks |-> <<>>],
     [shape |-> "blocks-not-array", blocks |-> <<>>],
     [shape |-> "blocks-array",
      blocks |-> <<[NullBlock EXCEPT !.id = ForeignA, !.type = "undefined"]>>]}

\* payloads whose entries are blocks, with parentId links that do not resolve
\* or that form a cycle
BrokenLinkPayloads ==
    {[shape |-> "blocks-array",
      blocks |-> <<[NullBlock EXCEPT !.id = ForeignA, !.type = "text",
                                     !.parentId = ForeignB]>>],
     [shape |-> "blocks-array",
      blocks |-> <<[NullBlock EXCEPT !.id = ForeignA, !.type = "row", !.hasKids = TRUE,
                                     !.kids = <<ForeignB>>, !.parentId = ForeignB],
                   [NullBlock EXCEPT !.id = ForeignB, !.type = "row", !.hasKids = TRUE,
                                     !.kids = <<ForeignA>>, !.parentId = ForeignA]>>]}

\* templates: what toJSON gives now, and a stored row with one text block
TemplatePayloads ==
    {[shape |-> "blocks-array", blocks |-> toJSON(Cur)],
     [shape |-> "blocks-array",
      blocks |-> <<[NullBlock EXCEPT !.id = ForeignA, !.type = "row", !.hasKids = TRUE,
                                     !.kids = <<ForeignB>>],
                   [NullBlock EXCEPT !.id = ForeignB, !.type = "text",
                                     !.parentId = ForeignA]>>]}

\* loadTemplate: fromJSON(template.data), whatever the storage holds
ImportCall(payload) ==
    /\ Step
    /\ SetModel(fromJSONAny(Cur, payload))
    /\ AfterOther
    /\ rm' = Rm0
    /\ Called("fromJSON")
    /\ UNCHANGED thumb
    /\ dup' = Dup0

Import ==
    \E payload \in InvalidPayloads \cup BrokenLinkPayloads \cup TemplatePayloads :
        ImportCall(payload)

\* a callback function either returns or throws, whenever it is called
Behaves(cb, throws) ==
    \A event \in EventNames : \A i \in DOMAIN listeners[event] :
        listeners[event][i].cb = cb => listeners[event][i].throws = throws

On ==
    \E event \in EventNames \cup {"other"}, cb \in 1..MaxCallbacks, throws \in BOOLEAN :
        /\ Behaves(cb, throws)
        /\ Step
        /\ SetModel(on(Cur, event, [cb |-> cb, throws |-> throws]))
        /\ AfterOther
        /\ rm' = Rm0
        /\ Called("on")
        /\ UNCHANGED thumb
        /\ dup' = Dup0

Off ==
    \E event \in EventNames \cup {"other"}, cb \in 1..MaxCallbacks :
        /\ Step
        /\ SetModel(off(Cur, event, cb))
        /\ AfterOther
        /\ rm' = Rm0
        /\ Called("off")
        /\ UNCHANGED thumb
        /\ dup' = Dup0

\* handleFieldChange of a text field: a keystroke (re)starts the debounce timer
Keystroke ==
    \E value \in Values :
        /\ panel.currentBlockId # NoId
        /\ Step
        /\ SetFields(startTyping(Cur))
        /\ panel' = [panel EXCEPT !.inputTimeout = TRUE, !.value = value,
                                  !.origin = panel.currentBlockId]
        /\ AfterOther
        /\ rm' = Rm0
        /\ Called("handleFieldChange")
        /\ UNCHANGED thumb
        /\ dup' = Dup0

\* handleFieldChange of a checkbox, number or range field: immediate update
FieldChange ==
    \E value \in Values :
        /\ panel.currentBlockId # NoId
        /\ Step
        /\ SetModel(updateBlock(Cur, panel.currentBlockId, value))
        /\ AfterOther
        /\ rm' = Rm0
        /\ Called("handleFieldChange")
        /\ UNCHANGED thumb
        /\ dup' = Dup0

\* the debounce timer fires: update of the block that is current now,
\* stopTyping, saveState
TimerFire ==
    /\ panel.inputTimeout
    /\ Step
    /\ LET M == inputTimeout(Cur, panel.currentBlockId, panel.value)
       IN /\ SetFields(M)
          /\ panel' = [PanelReacts(panel, M.calls) EXCEPT !.inputTimeout = FALSE]
    /\ AfterOther
    /\ rm' = Rm0
    /\ Called("inputTimeout")
    /\ UNCHANGED thumb
    /\ dup' = Dup0

\* generateThumbnail of the template saveTemplate has just stored: keep
\* toJSON() as currentState, load the template, wait for the canvas
ThumbStart ==
    /\ thumb.stage = "idle"
    /\ Step
    /\ SetModel(fromJSON(Cur, toJSON(Cur)))
    /\ thumb' = [stage |-> "rendering", currentState |-> toJSON(Cur)]
    /\ AfterOther
    /\ rm' = Rm0
    /\ Called("generateThumbnail")
    /\ dup' = Dup0

\* the thumbnail is rendered, or rendering failed: fromJSON(currentState)
ThumbEnd ==
    /\ thumb.stage = "rendering"
    /\ Step
    /\ SetModel(fromJSON(Cur, thumb.currentState))
    /\ thumb' = Thumb0
    /\ AfterOther
    /\ rm' = Rm0
    /\ Called("generateThumbnailEnd")
    /\ dup' = Dup0

InitWith(calls) ==
    /\ blocks = <<>>
    /\ allBlocksMap = <<>>
    /\ undoStack = <<>>
    /\ redoStack = <<>>
    /\ selectedBlockId = NoId
    /\ isTyping = FALSE
    /\ nextId = 1
    /\ events = <<>>
    /\ fuel = calls
    /\ rt = Rt0
    /\ run = [phase |-> "mutating", n |-> 0, u |-> 0, noop |-> FALSE]
    /\ sess = Sess0
    /\ rm = Rm0
    /\ op = Op0
    /\ dup = Dup0
    /\ listeners = NoListeners
    /\ invoked = <<>>
    /\ raised = FALSE
    /\ panel = Panel0
    /\ thumb = Thumb0

\* the state after construction
Init == InitWith(MaxSteps)
InitCore == InitWith(MaxStepsCore)
InitEdit == InitWith(MaxStepsEdit)
InitHist == InitWith(MaxStepsHist)
InitNotify == InitWith(MaxStepsNotify)
InitImport == InitWith(MaxStepsImport)
InitThumb == InitWith(MaxStepsThumb)

\* the state after construction and PropertiesManager.init
InitPanel ==
    /\ blocks = <<>>
    /\ allBlocksMap = <<>>
    /\ undoStack = <<>>
    /\ redoStack = <<>>
    /\ selectedBlockId = NoId
    /\ isTyping = FALSE
    /\ nextId = 1
    /\ events = <<>>
    /\ fuel = MaxStepsPanel
    /\ rt = Rt0
    /\ run = RunOff
    /\ sess = Sess0
    /\ rm = Rm0
    /\ op = Op0
    /\ dup = Dup0
    /\ listeners = PanelListeners
    /\ invoked = <<>>
    /\ raised = FALSE
    /\ panel = Panel0
    /\ thumb = Thumb0

\* the state after k calls of removeBlock with an id that no block has, on a new
\* model: each records a snapshot of the empty list (line 121) and returns
\* (line 124)
AfterUnknownRemoves(k, calls) ==
    /\ blocks = <<>>
    /\ allBlocksMap = <<>>
    /\ undoStack = [i \in 1..k |-> <<>>]
    /\ redoStack = <<>>
    /\ selectedBlockId = NoId
    /\ isTyping = FALSE
    /\ nextId = 1
    /\ events = <<"undoStateChanged">>
    /\ fuel = calls
    /\ rt = Rt0
    /\ run = RunOff
    /\ sess = Sess0
    /\ rm = Rm0
    /\ op = [name |-> "removeBlock", undo |-> k - 1, redo |-> 0]
    /\ dup = Dup0
    /\ listeners = NoListeners
    /\ invoked = <<>>
    /\ raised = FALSE
    /\ panel = Panel0
    /\ thumb = Thumb0

\* the undo stack is full or nearly full
InitLimit ==
    \E k \in (UndoLimit - MaxRoom)..UndoLimit : AfterUnknownRemoves(k, MaxStepsLimit)

\* every operation on the document, and selection
Next ==
    \/ AddBlock
    \/ InsertBlock
    \/ RemoveBlock
    \/ UpdateBlock
    \/ MoveBlock
    \/ DuplicateBlock
    \/ ClearAll
    \/ Undo
    \/ Redo
    \/ SelectBlock

Spec == Init /\ [][Next]_vars

\* add, remove, update, undo, redo and select
NextCore ==
    \/ AddBlock
    \/ RemoveBlock
    \/ UpdateBlock
    \/ Undo
    \/ Redo
    \/ SelectBlock

SpecCore == InitCore /\ [][NextCore]_vars

\* add, remove, move and update only
NextEdit ==
    \/ AddBlock
    \/ RemoveBlock
    \/ MoveBlock
    \/ UpdateBlock

SpecEdit == InitEdit /\ [][NextEdit]_vars

\* the typing session protocol: text edits of the properties panel, and undo
NextTyping ==
    \/ AddBlock
    \/ UpdateBlock
    \/ StartTyping
    \/ StopTyping
    \/ InputTimeout
    \/ Undo

SpecTyping == InitCore /\ [][NextTyping]_vars

\* every call that can record a snapshot or use one, inside and outside a
\* typing session
NextHist ==
    \/ AddBlock
    \/ InsertBlock
    \/ RemoveBlock
    \/ UpdateBlock
    \/ MoveBlock
    \/ DuplicateBlock
    \/ ClearAll
    \/ FromJSON
    \/ Undo
    \/ Redo
    \/ StartTyping
    \/ StopTyping
    \/ InputTimeout

SpecHist == InitHist /\ [][NextHist]_vars

\* the calls of NextCore on a model whose undo stack is at or near its capacity
SpecLimit == InitLimit /\ [][NextCore]_vars

\* subscribers come and go while blocks are added, removed, updated and
\* selected, and while changes are undone
NextNotify ==
    \/ On
    \/ Off
    \/ AddBlock
    \/ RemoveBlock
    \/ UpdateBlock
    \/ SelectBlock
    \/ Undo

SpecNotify == InitNotify /\ [][NextNotify]_vars

\* templates and other payloads are loaded into a document that is edited
NextImport ==
    \/ Import
    \/ AddBlock
    \/ UpdateBlock
    \/ SelectBlock
    \/ Undo

SpecImport == InitImport /\ [][NextImport]_vars

\* the properties panel: blocks are added and selected, fields are edited,
\* the debounce timer fires
NextPanel ==
    \/ AddBlock
    \/ SelectBlock
    \/ Keystroke
    \/ FieldChange
    \/ TimerFire

SpecPanel == InitPanel /\ [][NextPanel]_vars

\* a template is saved and its thumbnail generated while the document is edited
NextThumb ==
    \/ ThumbStart
    \/ ThumbEnd
    \/ AddBlock
    \/ RemoveBlock
    \/ UpdateBlock

SpecThumb == InitThumb /\ [][NextThumb]_vars

\* ----------------------------------------------------------------- claims

Occurrences(s, v) == Cardinality({i \in DOMAIN s : s[i] = v})

\* C1: undo() directly after a single mutation restores the tree the read
\* accessors showed before the mutation, and redo() directly after that undo()
\* restores the tree they showed right after the mutation.
C1_RoundTripLaw ==
    /\ rt.stage = "undone" => DocTree(Cur) = rt.pre
    /\ rt.stage = "redone" => DocTree(Cur) = rt.post

C3_OnePlace ==
    \A id \in DOMAIN allBlocksMap :
        LET b == allBlocksMap[id]
            topIds == [i \in DOMAIN blocks |-> blocks[i].b.id]
        IN IF b.parentId # NoId
           THEN /\ Exists(Cur, b.parentId)
                /\ Occurrences(getBlockById(Cur, b.parentId).kids, id) = 1
                /\ Occurrences(topIds, id) = 0
           ELSE /\ Occurrences(topIds, id) = 1
                /\ \A p \in DOMAIN allBlocksMap : Occurrences(allBlocksMap[p].kids, id) = 0

\* C4: from the empty document, N mutations followed by N undo() calls give the
\* empty tree with canUndo() false, and one more undo() fails and changes nothing.
C4_UndoAllReturnsToEmpty ==
    /\ (run.phase = "undoing" /\ run.u = run.n) =>
            /\ getAllBlocks(Cur) = <<>>
            /\ getAllBlocksFlat(Cur) = <<>>
            /\ ~canUndo(Cur)
    /\ run.phase = "extra" => run.noop

\* C5: a typing session with K >= 1 updates of an existing block, once closed,
\* has made the undo stack exactly one entry longer than it was when it opened.
C5_SessionAddsOneEntry ==
    (sess.stage = "closed" /\ sess.k >= 1) => Len(undoStack) = sess.len0 + 1

\* C6: after a typing session that updated block b is closed and undo() is
\* called, the field of b has the value it had just before the session opened.
C6_UndoRestoresPreSession ==
    sess.stage = "undone" =>
        \A b \in sess.upd : getBlock(Cur, b).val = sess.pre[b]

\* C7: after removeBlock(id) of a block of the document, getBlock returns null
\* for id and for every descendant of id.
C7_RemovedNotRetrievable ==
    rm.valid => \A x \in rm.ids : ~Exists(Cur, x)

\* C8: after removeBlock(id) of a row that has nested blocks, getAllBlocksFlat()
\* holds neither id nor any descendant of id.
C8_RemovedNotInFlat ==
    (rm.valid /\ rm.container) => rm.ids \cap FlatIds(Cur) = {}

\* C9: if the selected id is the removed block or a descendant of it, then after
\* removeBlock the selection is unset, getSelectedBlock() is null and a
\* selectionChanged notification was fired.
C9_RemoveClearsSelection ==
    (rm.valid /\ rm.selHit) =>
        /\ selectedBlockId = NoId
        /\ getSelectedBlock(Cur) = NullBlock
        /\ "selectionChanged" \in SeqToSet(events)

\* C10: when selectBlock is only called with null or the id of a block of
\* getAllBlocksFlat(), the selected id is unset or the id of a block of
\* getAllBlocksFlat().
C10_SelectionExists ==
    selectedBlockId = NoId \/ selectedBlockId \in FlatIds(Cur)

\* the calls that reach saveState
Savers ==
    {"addBlock", "insertBlock", "removeBlock", "moveBlock", "duplicateBlock",
     "clearAll", "fromJSON", "updateBlock", "inputTimeout"}

\* the last call has recorded a snapshot
Recorded == op.name \in Savers /\ "undoStateChanged" \in SeqToSet(events)

\* C11: right after a call that has recorded a history snapshot the redo stack
\* is empty and canRedo() is false.
C11_SnapshotEmptiesRedo ==
    Recorded => (redoStack = <<>> /\ ~canRedo(Cur))

\* C11 witness: a snapshot was recorded by a call that found redo entries
C11_Witness ==
    Recorded /\ op.redo > 0

\* the number of snapshots the call of this step records
RecordedInStep ==
    IF op'.name \in Savers
    THEN Cardinality({i \in DOMAIN events' : events'[i] = "undoStateChanged"})
    ELSE 0

\* C12: the undo stack never holds more than 50 snapshots, and a call that
\* records n snapshots on a stack of 50 evicts the n oldest and keeps the
\* others, in their order, in front of the new ones.
C12_UndoStackBounded ==
    /\ Len(undoStack) <= UndoLimit
    /\ [][/\ Len(undoStack') <= UndoLimit
          /\ (Len(undoStack) = UndoLimit /\ RecordedInStep > 0) =>
                /\ Len(undoStack') = UndoLimit
                /\ SubSeq(undoStack', 1, UndoLimit - RecordedInStep)
                       = SubSeq(undoStack, RecordedInStep + 1, UndoLimit)]_vars

\* C12 witness: a call that found 50 snapshots has recorded another one
C12_Witness ==
    Recorded /\ op.undo = UndoLimit /\ undoStack[UndoLimit] # <<>>

\* the ids for which get() returns a block
Retrievable(M) == {id \in Ids : Exists(M, id)}

\* what a rejected or no-op call must leave as it was: the top-level list, every
\* retrievable block, the selection and the two stacks
Untouched ==
    /\ getAllBlocks(Cur') = getAllBlocks(Cur)
    /\ Retrievable(Cur') = Retrievable(Cur)
    /\ \A id \in Retrievable(Cur) : getBlock(Cur', id) = getBlock(Cur, id)
    /\ selectedBlockId' = selectedBlockId
    /\ undoStack' = undoStack
    /\ redoStack' = redoStack

\* parentId names no block, or a block that is no row
InvalidOwner(parentId) ==
    parentId # NoId /\ (~Exists(Cur, parentId) \/ getBlockById(Cur, parentId).type # "row")

\* C13: an addBlock or a moveBlock whose parentId names a missing block or a
\* block that is no row changes nothing: top-level list, blocks, retrievable
\* ids, selection, undo stack and redo stack stay as they were.
C13_InvalidOwnerRejected ==
    [][\A parentId \in Ids \ {nextId} :
          (/\ InvalidOwner(parentId)
           /\ \/ \E type \in Types : AddCall(type, parentId)
              \/ \E blockId \in Ids, newIndex \in IndexInputs :
                    MoveCall(blockId, newIndex, parentId))
          => Untouched]_vars

\* index clamped to 0 .. length
Clamp(index, length) ==
    IF index < 0 THEN 0 ELSE IF index > length THEN length ELSE index

\* s with x put in so that k elements of s are in front of it
InsertedAt(s, k, x) == SubSeq(s, 1, k) \o <<x>> \o SubSeq(s, k + 1, Len(s))

\* the ids of the top-level list, in order
TopIds(M) == [i \in DOMAIN M.blocks |-> M.blocks[i].b.id]

\* C14: insertBlock(block, index) puts the new block at position
\* min(max(index, 0), length) of the top-level list, for every index, and keeps
\* the order of the blocks that were there.
C14_InsertClamps ==
    [][\A type \in Types, index \in IndexInputs :
          InsertCall(type, index) =>
              /\ TopIds(Cur') = InsertedAt(TopIds(Cur), Clamp(index, Len(blocks)), nextId)
              /\ getBlock(Cur', nextId).type = type]_vars

\* C15: removeBlock, updateBlock and moveBlock with an id that names no block
\* change nothing (tree, selection, undo stack, redo stack) and fire no
\* notification.
C15_UnknownIdNoOp ==
    [][\A blockId \in Ids :
          (/\ ~Exists(Cur, blockId)
           /\ \/ RemoveCall(blockId)
              \/ \E val \in Values : UpdateCall(blockId, val)
              \/ \E newIndex \in IndexInputs : MoveCall(blockId, newIndex, NoId))
          => (Untouched /\ events' = <<>>)]_vars

\* C16: moveBlock(id, newIndex, parentId) with parentId an existing row that is
\* not the block's parent takes id out of its old parent's child list or out of
\* the top-level list, puts it into the child list of parentId at newIndex and
\* sets the block's parentId.
C16_MoveReparents ==
    [][\A blockId \in Ids, parentId \in Ids, newIndex \in IndexInputs :
          (/\ blockId \in FlatIds(Cur)
           /\ parentId \in FlatIds(Cur) \ ({blockId} \cup Descendants(Cur, blockId))
           /\ getBlock(Cur, parentId).type = "row"
           /\ getBlock(Cur, blockId).parentId # parentId
           /\ MoveCall(blockId, newIndex, parentId))
          => LET old == getBlock(Cur, blockId).parentId
                 kids == getBlock(Cur, parentId).kids
             IN /\ getBlock(Cur', blockId).parentId = parentId
                /\ getBlock(Cur', parentId).kids
                       = InsertedAt(kids, Clamp(newIndex, Len(kids)), blockId)
                /\ blockId \notin SeqToSet(TopIds(Cur'))
                /\ old # NoId => blockId \notin SeqToSet(getBlock(Cur', old).kids)]_vars

\* C17: duplicateBlock(id) of a block of the document puts the copy directly
\* after the original: in the top-level list for a top-level original, in the
\* parent's child list for a nested one.
C17_DuplicateAfterOriginal ==
    [][\A blockId \in Ids :
          (blockId \in FlatIds(Cur) /\ DuplicateCall(blockId)) =>
              LET parentId == getBlock(Cur, blockId).parentId
              IN IF parentId = NoId
                 THEN TopIds(Cur') =
                          InsertedAt(TopIds(Cur), IndexOf(TopIds(Cur), blockId), nextId)
                 ELSE getBlock(Cur', parentId).kids =
                          InsertedAt(getBlock(Cur, parentId).kids,
                                     IndexOf(getBlock(Cur, parentId).kids, blockId), nextId)]_vars

\* C18: duplicateBlock(id) followed by removeBlock(id) leaves a tree of the
\* shape the tree had before the duplicate (types, data, nesting and order at
\* every level), and the blocks outside the subtree of id keep their ids.
C18_DuplicateThenRemove ==
    dup.stage = "removed" =>
        /\ Shape(Cur) = dup.shape
        /\ FlatIds(Cur) \cap dup.ids = dup.ids \ dup.sub

\* C19: a single mutation of the document outside a typing session has made the
\* undo stack exactly one snapshot longer, and that snapshot is the document
\* as it was before the call.
C19_OneSnapshotPerMutation ==
    rt.stage = "mut" =>
        /\ Len(undoStack) = op.undo + 1
        /\ undoStack[Len(undoStack)] = rt.pre.top

\* C20: a single mutation of the document has fired blocksChanged exactly once,
\* as the last step of the call (only selectionChanged may follow it).
C20_OneChangeNotification ==
    (rt.stage = "mut" \/ (op.name = "updateBlock" /\ events # <<>>)) =>
        /\ Cardinality({i \in DOMAIN events : events[i] = "blocksChanged"}) = 1
        /\ \A i \in DOMAIN events :
              events[i] = "blocksChanged" =>
                  \A j \in DOMAIN events : j > i => events[j] = "selectionChanged"

\* C21: whenever a subscriber callback runs, the mutation that triggered it
\* has been fully applied: what the callback reads through the accessors is what
\* they show when the call returns.
C21_CallbacksSeeFinalState ==
    \A i \in DOMAIN invoked : invoked[i].final

RECURSIVE ExpectedCalls(_)
\* the callbacks due for the notifications evs: for each, every subscriber of
\* the event in registration order
ExpectedCalls(evs) ==
    IF evs = <<>> THEN <<>>
    ELSE [i \in DOMAIN listeners[Head(evs)] |->
             [event |-> Head(evs), cb |-> listeners[Head(evs)][i].cb]]
         \o ExpectedCalls(Tail(evs))

\* the model with subscribers that do not throw
Calm(M) ==
    [M EXCEPT !.subs = [event \in DOMAIN M.subs |->
                           [i \in DOMAIN M.subs[event] |->
                               [M.subs[event][i] EXCEPT !.throws = FALSE]]]]

\* the effect of a call on blocks, selection and history
Effect(M) ==
    [blocks |-> M.blocks, map |-> M.map, sel |-> M.sel, undo |-> M.undo, redo |-> M.redo]

\* C22: when a subscriber throws, every other subscriber of the event is still
\* invoked in registration order, the error does not reach the caller of the
\* mutation, and the effect of the mutation on blocks, selection and history is
\* the one it has when no subscriber throws.
C22_SubscriberErrorIsolated ==
    /\ [](/\ [i \in DOMAIN invoked |-> [event |-> invoked[i].event, cb |-> invoked[i].cb]]
                = ExpectedCalls(events)
          /\ ~raised)
    /\ [][/\ (\A type \in Types, parentId \in Ids \cup {NoId} :
                AddCall(type, parentId)
                    => Effect(Cur') = Effect(addBlock(Calm(Cur), type, DefaultVal, parentId)))
           /\ (\A blockId \in Ids :
                RemoveCall(blockId) => Effect(Cur') = Effect(removeBlock(Calm(Cur), blockId)))
           /\ (\A id \in Ids, val \in Values :
                UpdateCall(id, val) => Effect(Cur') = Effect(updateBlock(Calm(Cur), id, val)))
           /\ (Undo => Effect(Cur') = Effect(undo(Calm(Cur))))
           /\ (SelectBlock
                   => \E selected \in Ids \cup {NoId} :
                          Effect(Cur') = Effect(selectBlock(Calm(Cur), selected)))]_vars

\* a mutation notified an event whose first subscriber threw, and the next
\* subscriber of the event ran after it
C22_Witness ==
    /\ op.name \in {"addBlock", "removeBlock", "updateBlock"}
    /\ \E i \in DOMAIN invoked :
           /\ invoked[i].threw
           /\ i + 1 \in DOMAIN invoked
           /\ invoked[i + 1].event = invoked[i].event
           /\ ~invoked[i + 1].threw

\* C23: in every state, clearAll leaves getAllBlocks and getAllBlocksFlat empty,
\* leaves no block that existed before retrievable through getBlock, clears the
\* selection, and makes the undo stack one entry longer (or keeps it at its
\* capacity).
C23_ClearAllEmpties ==
    [][ClearAll =>
          /\ getAllBlocks(Cur') = <<>>
          /\ getAllBlocksFlat(Cur') = <<>>
          /\ \A id \in Retrievable(Cur) : getBlock(Cur', id) = NullBlock
          /\ selectedBlockId' = NoId
          /\ Len(undoStack') = IF Len(undoStack) < UndoLimit
                               THEN Len(undoStack) + 1 ELSE UndoLimit]_vars

\* C24: fromJSON with structurally invalid data (null or no object, blocks that
\* is not a sequence, entries without the required fields) leaves the top-level
\* list, the id map, the selection and both stacks as they were, and loads no
\* block of the payload.
C24_InvalidImportRejected ==
    [][\A payload \in InvalidPayloads :
          ImportCall(payload) =>
              /\ blocks' = blocks
              /\ allBlocksMap' = allBlocksMap
              /\ selectedBlockId' = selectedBlockId
              /\ undoStack' = undoStack
              /\ redoStack' = redoStack]_vars

RECURSIVE ReachesTop(_, _, _)
\* following parentId from block id of the map reaches, within depth steps, a
\* block without parent
ReachesTop(map, id, depth) ==
    IF id \notin DOMAIN map THEN FALSE
    ELSE IF map[id].parentId = NoId THEN TRUE
    ELSE IF depth = 0 THEN FALSE
    ELSE ReachesTop(map, map[id].parentId, depth - 1)

\* C25: after an import, the parentId of every stored block that has one
\* resolves to a stored container, and following parentId from any stored
\* block reaches a top-level block (no cycle).
C25_ImportLinksResolve ==
    (op.name = "fromJSON" /\ ~raised) =>
        \A id \in DOMAIN allBlocksMap :
            /\ allBlocksMap[id].parentId # NoId =>
                  /\ allBlocksMap[id].parentId \in DOMAIN allBlocksMap
                  /\ allBlocksMap[allBlocksMap[id].parentId].hasKids
            /\ ReachesTop(allBlocksMap, id, Cardinality(DOMAIN allBlocksMap))

\* C26: the history is linear: once undo has left something to redo, any call
\* other than undo and redo that changes the document (an update inside a
\* typing session included) leaves nothing to redo.
C26_ChangeAfterUndoClearsRedo ==
    [][(/\ op'.name \notin {"undo", "redo"}
        /\ canRedo(Cur)
        /\ DocTree(Cur') # DocTree(Cur))
          => ~canRedo(Cur')]_vars

\* C27: the top-level list and the id map are coherent in every state: for each
\* block of the list getBlock returns the record the list holds, and
\* getChildBlocks of a block lists the ids of its child list as
\* getAllBlocksFlat records it.
C27_ListAndMapCoherent ==
    LET flat == getAllBlocksFlat(Cur)
    IN /\ \A i \in DOMAIN blocks : getBlock(Cur, blocks[i].b.id) = blocks[i].b
       /\ \A i \in DOMAIN flat :
              getChildBlocks(Cur, flat[i].id)
                  = IF flat[i].hasKids THEN flat[i].kids ELSE <<>>

\* C28: the undo stack and the redo stack never hold more than 50 snapshots
\* together; an undo or a redo that succeeds takes one snapshot from one stack
\* and puts one on the other, so redo cannot grow the undo stack beyond its
\* capacity.
C28_StacksBoundedTogether ==
    /\ [](Len(undoStack) + Len(redoStack) <= UndoLimit)
    /\ [][/\ ((Undo /\ canUndo(Cur)) =>
                  (/\ Len(undoStack') = Len(undoStack) - 1
                   /\ Len(redoStack') = Len(redoStack) + 1))
           /\ ((Redo /\ canRedo(Cur)) =>
                  (/\ Len(redoStack') = Len(redoStack) - 1
                   /\ Len(undoStack') = Len(undoStack) + 1
                   /\ Len(undoStack') <= UndoLimit))]_vars

\* C28 witness: a redo has brought the undo stack back to its capacity
C28_Witness ==
    op.name = "redo" /\ op.redo > 0 /\ Len(undoStack) = UndoLimit

\* C29: a debounced text edit is applied to the block that was edited at the
\* keystroke: when the timer fires, its value is written into no other block;
\* and the typing flag a keystroke opens is closed again, a timer being pending
\* whenever the flag is open.
C29_DebouncedEditHitsItsBlock ==
    /\ [](isTyping => panel.inputTimeout)
    /\ [][TimerFire =>
              \A id \in Ids \ {panel.origin} : getBlock(Cur', id) = getBlock(Cur, id)]_vars

\* C30: generating a thumbnail loses no edit: what the document holds when the
\* thumbnail settles is still there after the saved state is loaded back.
C30_ThumbnailKeepsEdits ==
    [][ThumbEnd => getAllBlocksFlat(Cur') = getAllBlocksFlat(Cur)]_vars

====
